---- MODULE Spec2Model ----
(***************************************************************************)
(* Model of the quiz question generator backend (src/backend).             *)
(*                                                                         *)
(* Text is modelled by TLA+ strings, on which Len, SubSeq and \o act as    *)
(* on sequences of characters.  The completion parser of services.py is a  *)
(* family of operators computed as the Python code computes them; the      *)
(* /questions/generate handler of routes.py is a state machine over a      *)
(* shared question store.                                                  *)
(***************************************************************************)
EXTENDS Integers, Sequences, FiniteSets, TLC

(***************************************************************************)
(* Python values.  An Optional value is a sequence of length 0 (None) or 1. *)
(***************************************************************************)
None == <<>>

Some(x) == <<x>>

\* the value kept as it is, empty or not
OrNone_keeps_empty(x) == Some(x)

\* Python truthiness of a list / dict / str kept, else None:  `x if x else None`
OrNone(x) == IF Len(x) = 0 THEN None ELSE Some(x)

(***************************************************************************)
(* str methods used by the parser.                                         *)
(***************************************************************************)
LowerAlpha == "abcdefghijklmnopqrstuvwxyz"

UpperAlpha == "ABCDEFGHIJKLMNOPQRSTUVWXYZ"

Digits == "0123456789"

Char(s, i) == SubSeq(s, i, i)

\* position of the one-character string c in alphabet a, 0 when absent
Pos(a, c) ==
    LET S == {i \in 1..Len(a) : Char(a, i) = c}
    IN  IF S = {} THEN 0 ELSE CHOOSE i \in S : TRUE

UpperChar(c) ==
    LET p == Pos(LowerAlpha, c) IN IF p = 0 THEN c ELSE Char(UpperAlpha, p)

LowerChar(c) ==
    LET p == Pos(UpperAlpha, c) IN IF p = 0 THEN c ELSE Char(LowerAlpha, p)

IsAlpha(c) == Pos(LowerAlpha, c) # 0 \/ Pos(UpperAlpha, c) # 0

IsSpace(c) == c \in {" ", "\n", "\t"}

RECURSIVE upper(_)
\* str.upper()
upper(s) == IF s = "" THEN "" ELSE UpperChar(Char(s, 1)) \o upper(Tail(s))

RECURSIVE lower(_)
\* str.lower()
lower(s) == IF s = "" THEN "" ELSE LowerChar(Char(s, 1)) \o lower(Tail(s))

\* str.startswith(p)
startswith(s, p) == Len(s) >= Len(p) /\ SubSeq(s, 1, Len(p)) = p

RECURSIVE lstrip(_)
lstrip(s) == IF s # "" /\ IsSpace(Char(s, 1)) THEN lstrip(Tail(s)) ELSE s

RECURSIVE rstrip(_)
rstrip(s) ==
    IF s # "" /\ IsSpace(Char(s, Len(s)))
    THEN rstrip(SubSeq(s, 1, Len(s) - 1)) ELSE s

\* str.strip()
strip(s) == rstrip(lstrip(s))

\* str.find(sep): the first index at which sep occurs in s, 0 when it does not
find(s, sep) ==
    LET S == {i \in 1..(Len(s) - Len(sep) + 1) : SubSeq(s, i, i + Len(sep) - 1) = sep}
    IN  IF S = {} THEN 0 ELSE CHOOSE i \in S : \A j \in S : i <= j

\* `sep in s`
contains(s, sep) == find(s, sep) # 0

RECURSIVE split(_, _)
\* str.split(sep): every piece between non-overlapping occurrences, left to right
split(s, sep) ==
    LET i == find(s, sep)
    IN  IF i = 0 THEN <<s>>
        ELSE <<SubSeq(s, 1, i - 1)>> \o split(SubSeq(s, i + Len(sep), Len(s)), sep)

\* str.split(sep, 1): at most one split, at the first occurrence
split1(s, sep) ==
    LET i == find(s, sep)
    IN  IF i = 0 THEN <<s>>
        ELSE <<SubSeq(s, 1, i - 1), SubSeq(s, i + Len(sep), Len(s))>>

RECURSIVE replace(_, _, _)
\* str.replace(a, b) for a one-character a
replace(s, a, b) ==
    IF s = "" THEN ""
    ELSE (IF Char(s, 1) = a THEN b ELSE Char(s, 1)) \o replace(Tail(s), a, b)

RECURSIVE titleFrom(_, _)
titleFrom(s, prevCased) ==
    IF s = "" THEN ""
    ELSE LET c == Char(s, 1)
         IN  (IF prevCased THEN LowerChar(c) ELSE UpperChar(c))
                 \o titleFrom(Tail(s), IsAlpha(c))

\* str.title()
title(s) == titleFrom(s, FALSE)

RECURSIVE DigitsValue(_, _)
\* value of a string of decimal digits, most significant first
DigitsValue(s, acc) ==
    IF s = "" THEN acc
    ELSE DigitsValue(Tail(s), 10 * acc + (Pos(Digits, Char(s, 1)) - 1))

RECURSIVE DropUnderscores(_)
DropUnderscores(s) ==
    IF s = "" THEN ""
    ELSE (IF Char(s, 1) = "_" THEN "" ELSE Char(s, 1)) \o DropUnderscores(Tail(s))

\* the body of an int literal: digits, single underscores only between digits
IsIntBody(b) ==
    /\ b # ""
    /\ \A i \in 1..Len(b) : Pos(Digits, Char(b, i)) # 0 \/ Char(b, i) = "_"
    /\ Char(b, 1) # "_" /\ Char(b, Len(b)) # "_"
    /\ ~contains(b, "__")

IntBody(t) == IF t # "" /\ Char(t, 1) \in {"+", "-"} THEN Tail(t) ELSE t

\* whether int(s) returns (TRUE) or raises ValueError (FALSE)
IntParses(s) == IsIntBody(IntBody(strip(s)))

\* int(s) for a string on which it returns
int(s) ==
    LET t == strip(s)
        v == DigitsValue(DropUnderscores(IntBody(t)), 0)
    IN  IF Char(t, 1) = "-" THEN 0 - v ELSE v

(***************************************************************************)
(* schemas.py: the enumerations of a request.                              *)
(***************************************************************************)
MULTIPLE_CHOICE == "multiple_choice"

TRUE_FALSE == "true_false"

FILL_IN_THE_BLANKS == "fill_in_the_blanks"

MATCH_THE_FOLLOWING == "match_the_following"

QuestionType == {MULTIPLE_CHOICE, TRUE_FALSE, FILL_IN_THE_BLANKS, MATCH_THE_FOLLOWING}

(***************************************************************************)
(* AIService._parse_single_question                                        *)
(***************************************************************************)
\* the locals of _parse_single_question as initialised before the scan
InitFields ==
    [topic |-> "", sub_topic |-> None, question_text |-> "", options |-> <<>>,
     correct_answer |-> "", explanation |-> "", blanks |-> <<>>,
     match_pairs |-> <<>>, elo_rating |-> 1200]

\* a get_value that splits at the last colon: text.rsplit(":", 1)
get_value_last_colon(text) ==
    LET parts == split(text, ":")
    IN  IF Len(parts) > 1 THEN strip(parts[Len(parts)]) ELSE ""

\* the nested helper get_value(text)
get_value(text) ==
    LET parts == split1(text, ":")
    IN  IF Len(parts) > 1 THEN strip(parts[2]) ELSE ""

\* line.split(":", 1)[1].strip() on a line known to hold a colon
after_colon(line) == strip(split1(line, ":")[2])

\* [x.strip() for x in text.split(",")]
RECURSIVE strip_all(_)
strip_all(items) ==
    IF items = <<>> THEN <<>> ELSE <<strip(Head(items))>> \o strip_all(Tail(items))

\* dict assignment d[key] = value on an insertion-ordered dict kept as a
\* sequence of <<key, value>>: an existing key keeps its place
dict_set(d, key, value) ==
    IF \E i \in 1..Len(d) : d[i][1] = key
    THEN [i \in 1..Len(d) |-> IF d[i][1] = key THEN <<key, value>> ELSE d[i]]
    ELSE Append(d, <<key, value>>)

RECURSIVE add_pairs_keeps_malformed(_, _)
\* a loop that also stores the items without "=", with an empty right term
add_pairs_keeps_malformed(d, pairs) ==
    IF pairs = <<>> THEN d
    ELSE LET pair == Head(pairs)
             kv   == split1(pair, "=")
         IN  add_pairs_keeps_malformed(
                 dict_set(d, strip(kv[1]), IF Len(kv) > 1 THEN strip(kv[2]) ELSE ""),
                 Tail(pairs))

RECURSIVE add_pairs(_, _)
\* the loop `for pair in pairs: if "=" in pair: ...`
add_pairs(d, pairs) ==
    IF pairs = <<>> THEN d
    ELSE LET pair == Head(pairs)
             kv   == split1(pair, "=")
         IN  add_pairs(IF contains(pair, "=")
                       THEN dict_set(d, strip(kv[1]), strip(kv[2]))
                       ELSE d,
                       Tail(pairs))

\* a rating branch that leaves 0 behind on ValueError
scan_rating_zero_on_error(line) ==
    IF IntParses(get_value(line)) THEN int(get_value(line)) ELSE 0

\* the rating branch: int(get_value(line)), 1200 on ValueError
scan_rating(line) == IF IntParses(get_value(line)) THEN int(get_value(line)) ELSE 1200

is_option_line(line) ==
    \/ startswith(line, "A)") \/ startswith(line, "B)")
    \/ startswith(line, "C)") \/ startswith(line, "D)")

is_topic_label(line_upper) ==
    startswith(line_upper, "TOPIC:") \/ startswith(line_upper, "Topic:")

is_subtopic_label(line_upper) ==
    \/ startswith(line_upper, "SUBTOPIC:")
    \/ startswith(line_upper, "Sub-topic:")

is_question_label(line_upper) ==
    startswith(line_upper, "QUESTION:") \/ startswith(line_upper, "Question:")

is_explanation_label(line_upper) ==
    startswith(line_upper, "EXPLANATION:") \/ startswith(line_upper, "Explanation:")

is_rating_label(line_upper) ==
    startswith(line_upper, "RATING:") \/ startswith(line_upper, "ELO Rating:")

is_mc_answer_label(line_upper) ==
    startswith(line_upper, "ANSWER:") \/ startswith(line_upper, "Correct Answer:")

is_tf_answer_label(line_upper) ==
    startswith(line_upper, "ANSWER:") \/ startswith(line_upper, "Answer:")

is_blanks_label(line_upper) ==
    startswith(line_upper, "BLANKS:") \/ startswith(line_upper, "Blanks:")

is_pairs_label(line_upper) ==
    startswith(line_upper, "PAIRS:") \/ startswith(line_upper, "Match Pairs:")

\* one iteration of `for line in lines:` on the locals f
scan_line(f, line, question_type) ==
    LET line_upper == upper(line)
    IN  IF is_topic_label(line_upper) THEN [f EXCEPT !.topic = get_value(line)]
        ELSE IF is_subtopic_label(line_upper)
        THEN [f EXCEPT !.sub_topic = Some(get_value(line))]
        ELSE IF is_question_label(line_upper)
        THEN [f EXCEPT !.question_text = get_value(line)]
        ELSE IF is_explanation_label(line_upper)
        THEN [f EXCEPT !.explanation = get_value(line)]
        ELSE IF is_rating_label(line_upper)
        THEN [f EXCEPT !.elo_rating = scan_rating(line)]
        ELSE IF question_type = MULTIPLE_CHOICE
        THEN IF is_option_line(line)
             THEN [f EXCEPT !.options = Append(@, line)]
             ELSE IF is_mc_answer_label(line_upper)
             THEN [f EXCEPT !.correct_answer = after_colon(line)]
             ELSE f
        ELSE IF question_type = TRUE_FALSE
        THEN IF is_tf_answer_label(line_upper)
             THEN [f EXCEPT !.correct_answer = after_colon(line)]
             ELSE f
        ELSE IF question_type = FILL_IN_THE_BLANKS
        THEN IF is_blanks_label(line_upper)
             THEN [f EXCEPT !.blanks = strip_all(split(after_colon(line), ",")),
                            !.correct_answer = after_colon(line)]
             ELSE f
        ELSE IF question_type = MATCH_THE_FOLLOWING
        THEN IF is_pairs_label(line_upper)
             THEN [f EXCEPT !.match_pairs =
                                add_pairs(@, strip_all(split(after_colon(line), ","))),
                            !.correct_answer = after_colon(line)]
             ELSE f
        ELSE f

RECURSIVE scan_lines(_, _, _)
scan_lines(f, lines, question_type) ==
    IF lines = <<>> THEN f
    ELSE scan_lines(scan_line(f, Head(lines), question_type), Tail(lines), question_type)

RECURSIVE nonempty_stripped(_)
\* [line.strip() for line in xs if line.strip()]
nonempty_stripped(xs) ==
    IF xs = <<>> THEN <<>>
    ELSE (IF strip(Head(xs)) = "" THEN <<>> ELSE <<strip(Head(xs))>>)
             \o nonempty_stripped(Tail(xs))

block_lines(block) == nonempty_stripped(split(block, "\n"))

\* a validation that checks the question and the answer only
fields_valid_text_only(f, question_type) ==
    f.question_text # "" /\ f.correct_answer # ""

\* the validation of the scanned locals: TRUE when no check returns None
fields_valid(f, question_type) ==
    /\ f.question_text # ""
    /\ f.correct_answer # ""
    /\ ~(question_type = MULTIPLE_CHOICE /\ Len(f.options) < 4)
    /\ ~(question_type = FILL_IN_THE_BLANKS /\ Len(f.blanks) = 0)
    /\ ~(question_type = MATCH_THE_FOLLOWING /\ Len(f.match_pairs) < 3)

\* a clamp that forgets the lower bound
clamp_rating_upper_only(r) == IF r < 2400 THEN r ELSE 2400

\* elo_rating = max(800, min(2400, elo_rating))
clamp_rating(r) ==
    LET m == IF r < 2400 THEN r ELSE 2400 IN IF m > 800 THEN m ELSE 800

\* elo_range = (elo_rating - 200, elo_rating + 200) of the clamped rating
elo_range(r) == <<r - 200, r + 200>>

\* the subject as it is
default_topic_raw_subject(request) == request.subject

default_topic(request) == title(replace(request.subject, "_", " "))

\* `not sub_topic` for an Optional[str]: None or the empty string
sub_topic_falsy(st) == st = None \/ st = Some("")

\* the dict returned for validated locals f
build_question(f, request) ==
    [topic          |-> IF f.topic = "" THEN default_topic(request) ELSE f.topic,
     sub_topic      |-> IF sub_topic_falsy(f.sub_topic) /\ ~sub_topic_falsy(request.sub_topic)
                        THEN request.sub_topic ELSE f.sub_topic,
     question_text  |-> f.question_text,
     options        |-> OrNone(f.options),
     correct_answer |-> f.correct_answer,
     explanation    |-> OrNone(f.explanation),
     blanks         |-> OrNone(f.blanks),
     match_pairs    |-> OrNone(f.match_pairs),
     elo_rating     |-> clamp_rating(f.elo_rating),
     elo_range      |-> elo_range(clamp_rating(f.elo_rating)),
     state          |-> request.state]

\* the locals after the scan of a block
scan_block(block, question_type) ==
    scan_lines(InitFields, block_lines(block), question_type)

\* _parse_single_question: None, or Some(dict)
parse_single_question(block, question_type, request) ==
    LET f == scan_block(block, question_type)
    IN  IF fields_valid(f, question_type) THEN Some(build_question(f, request)) ELSE None

(***************************************************************************)
(* AIService._parse_ai_response                                            *)
(***************************************************************************)
MinBlockLen == 30

\* `not block or len(block) < 30` on the stripped block
\* only the empty block is skipped
block_skipped_empty_only(block) == block = ""

block_skipped(block) == block = "" \/ Len(block) < MinBlockLen

RECURSIVE parse_blocks_stop_at_failure(_, _)
\* a loop that gives up at the first block that yields no record
parse_blocks_stop_at_failure(blocks, request) ==
    IF blocks = <<>> THEN <<>>
    ELSE LET block == strip(Head(blocks))
             q == IF block_skipped(block) THEN <<>>
                  ELSE parse_single_question(block, request.question_type, request)
         IN  IF q = <<>> THEN <<>>
             ELSE q \o parse_blocks_stop_at_failure(Tail(blocks), request)

RECURSIVE parse_blocks(_, _)
parse_blocks(blocks, request) ==
    IF blocks = <<>> THEN <<>>
    ELSE LET block == strip(Head(blocks))
         IN  (IF block_skipped(block) THEN <<>>
              ELSE parse_single_question(block, request.question_type, request))
                 \o parse_blocks(Tail(blocks), request)

parse_ai_response(ai_response, request) == parse_blocks(split(ai_response, "---"), request)

(***************************************************************************)
(* routes.py: create_question_response_from_dict                           *)
(***************************************************************************)
\* s[3:]
from3(s) == SubSeq(s, 4, Len(s))

\* question_data.get(key) is truthy: not None and not empty
truthy(opt) == opt # None /\ Len(opt[1]) > 0

create_question_response_from_dict(question_data, request, question_id) ==
    LET qt == request.question_type
        mc == qt = MULTIPLE_CHOICE /\ truthy(question_data.options)
        tf == ~mc /\ qt = TRUE_FALSE
        fb == ~mc /\ ~tf /\ qt = FILL_IN_THE_BLANKS /\ truthy(question_data.blanks)
        mf == ~mc /\ ~tf /\ ~fb /\ qt = MATCH_THE_FOLLOWING
                  /\ truthy(question_data.match_pairs)
    IN  [id            |-> question_id,
         subject       |-> request.subject,
         difficulty    |-> request.difficulty,
         question_type |-> qt,
         topic         |-> question_data.topic,
         sub_topic     |-> question_data.sub_topic,
         question_text |-> question_data.question_text,
         explanation   |-> question_data.explanation,
         elo_rating    |-> question_data.elo_rating,
         elo_min       |-> question_data.elo_range[1],
         elo_max       |-> question_data.elo_range[2],
         state         |-> question_data.state,
         multiple_choice_data |->
             IF mc THEN Some([option_a |-> from3(question_data.options[1][1]),
                              option_b |-> from3(question_data.options[1][2]),
                              option_c |-> from3(question_data.options[1][3]),
                              option_d |-> from3(question_data.options[1][4]),
                              correct_option |-> question_data.correct_answer])
             ELSE None,
         true_false_data |->
             IF tf THEN Some([correct_answer |-> question_data.correct_answer]) ELSE None,
         fill_in_blanks_data |->
             IF fb THEN Some([answers |-> question_data.blanks[1]]) ELSE None,
         match_following_data |->
             IF mf THEN Some([pairs |-> question_data.match_pairs[1]]) ELSE None]

(***************************************************************************)
(* routes.py: convert_to_frontend_format, check_duplicate_question         *)
(***************************************************************************)
RECURSIVE join(_, _)
\* sep.join(items)
join(items, sep) ==
    IF items = <<>> THEN ""
    ELSE IF Len(items) = 1 THEN items[1]
    ELSE items[1] \o sep \o join(Tail(items), sep)

convert_to_frontend_format(question_response) ==
    LET mc == question_response.multiple_choice_data
        tf == question_response.true_false_data
        fb == question_response.fill_in_blanks_data
        mf == question_response.match_following_data
    IN  [id          |-> question_response.id,
         topic       |-> question_response.topic,
         sub_topic   |-> question_response.sub_topic,
         question    |-> question_response.question_text,
         explanation |-> question_response.explanation,
         elo_rating  |-> question_response.elo_rating,
         elo_range   |-> <<question_response.elo_min, question_response.elo_max>>,
         state       |-> question_response.state,
         options     |-> IF mc # None
                         THEN Some(<<"A) " \o mc[1].option_a, "B) " \o mc[1].option_b,
                                     "C) " \o mc[1].option_c, "D) " \o mc[1].option_d>>)
                         ELSE None,
         correct_answer |->
             IF mc # None THEN mc[1].correct_option
             ELSE IF tf # None THEN tf[1].correct_answer
             ELSE IF fb # None THEN join(fb[1].answers, ",")
             ELSE IF mf # None
             THEN join([k \in 1..Len(mf[1].pairs) |->
                           mf[1].pairs[k][1] \o "=" \o mf[1].pairs[k][2]], ",")
             ELSE "",
         blanks      |-> IF mc = None /\ tf = None /\ fb # None
                         THEN Some(fb[1].answers) ELSE None,
         match_pairs |-> IF mc = None /\ tf = None /\ fb = None /\ mf # None
                         THEN Some(mf[1].pairs) ELSE None]

\* a filter that compares the texts as they are, case included
same_question_case_sensitive(row, question_text, subject, question_type) ==
    /\ row.question_text = strip(question_text)
    /\ row.subject = subject
    /\ row.question_type = question_type

\* a filter that lower-cases the argument but not the column
same_question_raw_column(row, question_text, subject, question_type) ==
    /\ row.question_text = strip(lower(question_text))
    /\ row.subject = subject
    /\ row.question_type = question_type

\* the filter of check_duplicate_question on one stored row
same_question(row, question_text, subject, question_type) ==
    /\ lower(row.question_text) = strip(lower(question_text))
    /\ row.subject = subject
    /\ row.question_type = question_type

\* a check that looks at the latest row only
check_duplicate_question_latest_row(rows, question_text, subject, question_type) ==
    rows # <<>> /\ same_question(rows[Len(rows)], question_text, subject, question_type)

\* check_duplicate_question(db, question_text, subject, question_type)
check_duplicate_question(rows, question_text, subject, question_type) ==
    \E k \in 1..Len(rows) : same_question(rows[k], question_text, subject, question_type)

\* no truncation: the whole list
slice_to_whole(xs, n) == xs

\* xs[:n]
slice_to(xs, n) ==
    IF n >= 0 THEN SubSeq(xs, 1, IF n < Len(xs) THEN n ELSE Len(xs))
    ELSE SubSeq(xs, 1, IF Len(xs) + n > 0 THEN Len(xs) + n ELSE 0)

(***************************************************************************)
(* The parser under test.  A completion is assembled from chunks of text   *)
(* (one or more lines each); a chunk carries, beside its text, what the    *)
(* text is meant to be: its kind, its value and a number.  The parser sees *)
(* only the text.                                                          *)
(***************************************************************************)
VARIABLES
    p_request,   \* the QuestionRequest given to the parser
    p_chunks,    \* the chunks of the completion, in order
    p_pc,        \* "input" | "single" | "response"
    p_fields,    \* the locals of _parse_single_question after its scan
    p_single,    \* what _parse_single_question returned: None or Some(dict)
    p_out,       \* what _parse_ai_response returned: the list of dicts
    p_resp,      \* the QuestionResponse built from each returned dict
    p_front      \* the frontend dict built from each QuestionResponse

pvars == <<p_request, p_chunks, p_pc, p_fields, p_single, p_out, p_resp, p_front>>

(***************************************************************************)
(* The service.  Requests to POST /questions/generate are numbered in the  *)
(* order of their arrival.  The API is served by worker processes that     *)
(* share the database named by DATABASE_URL; within one worker the handler *)
(* is a coroutine of the event loop, which it leaves only at its one       *)
(* await (the LLM call): from the return of that call to the response it   *)
(* runs without another request of the same worker in between.  Workers    *)
(* interleave at database statements.                                      *)
(***************************************************************************)
VARIABLES
    openrouter,          \* whether the module-level LLM client is configured
    store,               \* the questions table, in insertion order
    pc,                  \* per request: "idle" | "llm" | "check" | "save" | "done"
    request,             \* per request: the QuestionRequest
    worker,              \* per request: the worker process that serves it
    running,             \* per worker: the request that holds its event loop, or 0
    llm_calls,           \* per request: calls of _call_openrouter so far
    ai_response,         \* per request: None until the call returns, then Some(what it returned)
    question_dicts,      \* per request: the parsed records
    idx,                 \* per request: index of the record in process (from 1)
    seen,                \* per request: rows in the table at its last duplicate check
    frontend_questions,  \* per request: the output list
    saved_questions,     \* per request: ids of the rows it saved
    duplicates_found,    \* per request: the duplicate counter
    outcome,             \* per request: what became of each record, in order
    result,              \* per request: None, or Some(response)
    before,              \* per request: the requests answered before it arrived
    failures             \* database failures so far

hvars == <<openrouter, store, pc, request, worker, running, llm_calls, ai_response,
           question_dicts,
           idx, seen, frontend_questions, saved_questions, duplicates_found, outcome,
           result, before, failures>>

vars == <<pvars, hvars>>

\* how many chunks a completion is assembled from
MaxChunks == 3

Chunk(text, kind, val, n) == [text |-> text, kind |-> kind, val |-> val, n |-> n]

RECURSIVE Text(_)
\* the text of a sequence of chunks: each chunk's lines, newline-terminated
Text(chunks) ==
    IF chunks = <<>> THEN "" ELSE Head(chunks).text \o "\n" \o Text(Tail(chunks))

Request(subject, question_type, sub_topic) ==
    [subject |-> subject, difficulty |-> "medium", question_type |-> question_type,
     sub_topic |-> sub_topic, num_questions |-> 5, state |-> "fun"]

\* how many requests arrive
MaxRequests == 2

\* how many database statements fail
MaxFailures == 1

Reqs == 1..MaxRequests

Workers == {1, 2}

\* the service before any request
HInit ==
    /\ store = <<>>
    /\ pc = [r \in Reqs |-> "idle"]
    /\ request = [r \in Reqs |-> Request("physics", TRUE_FALSE, None)]
    /\ worker = [r \in Reqs |-> 1]
    /\ running = [w \in Workers |-> 0]
    /\ llm_calls = [r \in Reqs |-> 0]
    /\ ai_response = [r \in Reqs |-> None]
    /\ question_dicts = [r \in Reqs |-> <<>>]
    /\ idx = [r \in Reqs |-> 0]
    /\ seen = [r \in Reqs |-> 0]
    /\ frontend_questions = [r \in Reqs |-> <<>>]
    /\ saved_questions = [r \in Reqs |-> <<>>]
    /\ duplicates_found = [r \in Reqs |-> 0]
    /\ outcome = [r \in Reqs |-> <<>>]
    /\ result = [r \in Reqs |-> None]
    /\ before = [r \in Reqs |-> {}]
    /\ failures = 0

PInit(requests) ==
    /\ openrouter = TRUE
    /\ HInit
    /\ p_request \in requests
    /\ p_chunks = <<>>
    /\ p_pc = "input"
    /\ p_fields = InitFields
    /\ p_single = None
    /\ p_out = <<>>
    /\ p_resp = <<>>
    /\ p_front = <<>>

\* the completion grows by one chunk
Emit(c) ==
    /\ p_pc = "input"
    /\ Len(p_chunks) < MaxChunks
    /\ p_chunks' = Append(p_chunks, c)
    /\ UNCHANGED <<p_request, p_pc, p_fields, p_single, p_out, p_resp, p_front, hvars>>

\* _parse_single_question(block, request.question_type, request) on the
\* stripped text taken as one block
ParseSingle ==
    /\ p_pc = "input"
    /\ p_pc' = "single"
    /\ p_fields' = scan_block(strip(Text(p_chunks)), p_request.question_type)
    /\ p_single' = parse_single_question(strip(Text(p_chunks)),
                                         p_request.question_type, p_request)
    /\ UNCHANGED <<p_request, p_chunks, p_out, p_resp, p_front, hvars>>

\* _parse_ai_response(ai_response, request) on the text
ParseResponse ==
    /\ p_pc = "input"
    /\ p_pc' = "response"
    /\ p_out' = parse_ai_response(Text(p_chunks), p_request)
    /\ UNCHANGED <<p_request, p_chunks, p_fields, p_single, p_resp, p_front, hvars>>

\* the records the parser produced in the current state
Emitted ==
    IF p_pc = "single" THEN p_single
    ELSE IF p_pc = "response" THEN p_out ELSE <<>>

\* create_question_response_from_dict(question_data, request, i + 1) for each
\* returned dict, as the handler's loop calls it
Respond ==
    /\ Emitted # <<>>
    /\ p_resp = <<>>
    /\ p_resp' = [i \in 1..Len(Emitted) |->
                     create_question_response_from_dict(Emitted[i], p_request, i)]
    /\ UNCHANGED <<p_request, p_chunks, p_pc, p_fields, p_single, p_out, p_front, hvars>>

\* convert_to_frontend_format(temp_response) for each QuestionResponse, as the
\* handler's loop calls it
Convert ==
    /\ p_resp # <<>>
    /\ p_front = <<>>
    /\ p_front' = [i \in 1..Len(p_resp) |-> convert_to_frontend_format(p_resp[i])]
    /\ UNCHANGED <<p_request, p_chunks, p_pc, p_fields, p_single, p_out, p_resp, hvars>>

AllTypes == {Request("physics", t, None) : t \in QuestionType}

\* chunks of a given kind, in order
RECURSIVE OfKind(_, _)
OfKind(chunks, kinds) ==
    IF chunks = <<>> THEN <<>>
    ELSE (IF Head(chunks).kind \in kinds THEN <<Head(chunks)>> ELSE <<>>)
             \o OfKind(Tail(chunks), kinds)

Last(s) == s[Len(s)]

(***************************************************************************)
(* Ratings: a well-formed block of the request's type and RATING lines.    *)
(***************************************************************************)
Body(question_type) ==
    Chunk(CASE question_type = MULTIPLE_CHOICE ->
                 "QUESTION: What is X?\nA) one\nB) two\nC) three\nD) four\nANSWER: C"
            [] question_type = TRUE_FALSE ->
                 "QUESTION: Energy can be created.\nANSWER: False"
            [] question_type = FILL_IN_THE_BLANKS ->
                 "QUESTION: Light travels at _____ m/s.\nBLANKS: 3e8"
            [] question_type = MATCH_THE_FOLLOWING ->
                 "QUESTION: Match the symbols:\nPAIRS: Hydrogen=H, Oxygen=O, Carbon=C",
          "body", "", 0)

\* val "int": the line's value is the integer n; val "bad": it is no integer
RatingLines ==
    {Chunk("RATING: 799", "rating", "int", 799),
     Chunk("Rating: 1250", "rating", "int", 1250),
     Chunk("RATING:2401", "rating", "int", 2401),
     Chunk("rating: -5", "rating", "int", -5),
     Chunk("RATING: 12.5", "rating", "bad", 0),
     Chunk("RATING:", "rating", "bad", 0)}

RatingMenu == {Body(p_request.question_type)} \cup RatingLines

NextRating == (\E c \in RatingMenu : Emit(c)) \/ ParseSingle \/ ParseResponse

SpecRating == PInit(AllTypes) /\ [][NextRating]_vars

\* the RATING lines of the completion, in order; the last one is in effect
RatingChunks == OfKind(p_chunks, {"rating"})

\* C1: a record parsed from a block whose rating line in effect holds the
\* integer v has rating v clamped to [800, 2400] (800 below, 2400 above, v
\* otherwise) and range (rating - 200, rating + 200), the bounds of the range
\* not clamped.
C1_RatingClamped ==
    \A i \in 1..Len(Emitted) :
        (RatingChunks # <<>> /\ Last(RatingChunks).val = "int") =>
            LET v == Last(RatingChunks).n
                expected == IF v < 800 THEN 800 ELSE IF v > 2400 THEN 2400 ELSE v
            IN  /\ Emitted[i].elo_rating = expected
                /\ Emitted[i].elo_range = <<expected - 200, expected + 200>>

\* a rating above 2400 was parsed and the record's range exceeds 2400
C1_Witness ==
    /\ p_pc = "response" /\ Len(p_out) = 1
    /\ RatingChunks # <<>> /\ Last(RatingChunks).n = 2401
    /\ p_out[1].elo_rating = 2400 /\ p_out[1].elo_range = <<2200, 2600>>

\* C9: a block with no RATING line, or whose RATING line in effect holds no
\* integer, is not rejected for it (a well-formed block yields its record
\* whatever its RATING lines), and its record has rating 1200 and range
\* (1000, 1400).
C9_DefaultRating ==
    /\ (p_pc = "single" /\ OfKind(p_chunks, {"body"}) # <<>>) => p_single # None
    /\ (p_pc = "response" /\ OfKind(p_chunks, {"body"}) # <<>>) => Len(p_out) = 1
    /\ \A i \in 1..Len(Emitted) :
           (RatingChunks = <<>> \/ Last(RatingChunks).val = "bad") =>
               /\ Emitted[i].elo_rating = 1200
               /\ Emitted[i].elo_range = <<1000, 1400>>

\* an unparsable RATING line after a parsable one: the record has 1200
C9_Witness ==
    /\ p_pc = "single" /\ p_single # None
    /\ Len(RatingChunks) = 2
    /\ RatingChunks[1].val = "int" /\ RatingChunks[2].val = "bad"
    /\ p_single[1].elo_rating = 1200

(***************************************************************************)
(* Fields: blocks assembled line by line, complete or not, with lines of   *)
(* the other types' layouts among them.                                    *)
(*   question: val is the question text                                    *)
(*   options:  n option lines                                              *)
(*   answer:   val is the answer                                           *)
(*   blanks:   val is the raw value, n the number of comma-separated items *)
(*   pairs:    val holds the initial of the left term of each valid        *)
(*             left=right item, in order; n is their number                *)
(***************************************************************************)
QuestionLines ==
    {Chunk("QUESTION: What is X?", "question", "What is X?", 0),
     Chunk("QUESTION:", "question", "", 0)}

Options4 == Chunk("A) one\nB) two\nC) three\nD) four", "options", "", 4)

Options3 == Chunk("A) one\nB) two\nC) three", "options", "", 3)

AnswerC == Chunk("ANSWER: C", "answer", "C", 0)

AnswerTrue == Chunk("ANSWER: True", "answer", "True", 0)

AnswerEmpty == Chunk("ANSWER:", "answer", "", 0)

Blanks2 == Chunk("BLANKS: a, b", "blanks", "a, b", 2)

BlanksComma == Chunk("BLANKS: ,", "blanks", ",", 2)

BlanksEmpty == Chunk("BLANKS:", "blanks", "", 0)

Pairs1 == Chunk("PAIRS: N=Nitrogen", "pairs", "N", 1)

Pairs2 == Chunk("PAIRS: H=Hydrogen, O=Oxygen", "pairs", "HO", 2)

Pairs2Malformed == Chunk("PAIRS: H=Hydrogen, helium, O=Oxygen", "pairs", "HO", 2)

Pairs3 == Chunk("PAIRS: H=Hydrogen, O=Oxygen, C=Carbon", "pairs", "HOC", 3)

Pairs3Repeated == Chunk("PAIRS: H=Hydrogen, H=Helium, O=Oxygen", "pairs", "HHO", 3)

PairsEmpty == Chunk("PAIRS:", "pairs", "", 0)

FieldsMenu ==
    QuestionLines \cup
    CASE p_request.question_type = MULTIPLE_CHOICE ->
             {Options4, Options3, AnswerC, AnswerEmpty, Blanks2, Pairs3}
      [] p_request.question_type = TRUE_FALSE ->
             {AnswerTrue, AnswerEmpty, Options4, Blanks2, Pairs3}
      [] p_request.question_type = FILL_IN_THE_BLANKS ->
             {Blanks2, BlanksComma, BlanksEmpty, AnswerC, Options4}
      [] p_request.question_type = MATCH_THE_FOLLOWING ->
             {Pairs1, Pairs2, Pairs2Malformed, Pairs3, Pairs3Repeated, PairsEmpty, Blanks2}

NextFields ==
    (\E c \in FieldsMenu : Emit(c)) \/ ParseSingle \/ ParseResponse \/ Respond

SpecFields == PInit(AllTypes) /\ [][NextFields]_vars

\* the kind of the line that carries the answer of a request of this type
AnswerKind(question_type) ==
    CASE question_type \in {MULTIPLE_CHOICE, TRUE_FALSE} -> "answer"
      [] question_type = FILL_IN_THE_BLANKS -> "blanks"
      [] question_type = MATCH_THE_FOLLOWING -> "pairs"

RECURSIVE SumN(_)
SumN(chunks) == IF chunks = <<>> THEN 0 ELSE Head(chunks).n + SumN(Tail(chunks))

RECURSIVE Initials(_)
\* the left terms (by initial) of the valid items of all PAIRS lines
Initials(chunks) ==
    IF chunks = <<>> THEN {}
    ELSE {Char(Head(chunks).val, i) : i \in 1..Len(Head(chunks).val)}
             \cup Initials(Tail(chunks))

\* what the text says of the block, read off the chunks
QuestionMissing ==
    LET q == OfKind(p_chunks, {"question"}) IN q = <<>> \/ Last(q).val = ""

AnswerMissing ==
    LET a == OfKind(p_chunks, {AnswerKind(p_request.question_type)})
    IN  a = <<>> \/ Last(a).val = ""

TooFewOptions ==
    /\ p_request.question_type = MULTIPLE_CHOICE
    /\ SumN(OfKind(p_chunks, {"options"})) < 4

NoBlanks ==
    /\ p_request.question_type = FILL_IN_THE_BLANKS
    /\ OfKind(p_chunks, {"blanks"}) = <<>>

TooFewPairs ==
    /\ p_request.question_type = MATCH_THE_FOLLOWING
    /\ Cardinality(Initials(OfKind(p_chunks, {"pairs"}))) < 3

Parsed == p_pc \in {"single", "response"}

\* C4: every emitted record has a non-empty question text and a non-empty
\* correct answer, and at least 4 options (multiple_choice), at least one
\* blank answer (fill_in_the_blanks), at least 3 pairs (match_the_following);
\* a block that fails one of these checks yields no record.
C4_EmittedRecordsComplete ==
    /\ \A i \in 1..Len(Emitted) :
           LET rec == Emitted[i]
               qt  == p_request.question_type
           IN  /\ rec.question_text # ""
               /\ rec.correct_answer # ""
               /\ qt = MULTIPLE_CHOICE =>
                      rec.options # None /\ Len(rec.options[1]) >= 4
               /\ qt = FILL_IN_THE_BLANKS =>
                      rec.blanks # None /\ Len(rec.blanks[1]) >= 1
               /\ qt = MATCH_THE_FOLLOWING =>
                      rec.match_pairs # None /\ Len(rec.match_pairs[1]) >= 3
    /\ (Parsed /\ (QuestionMissing \/ AnswerMissing \/ TooFewOptions
                      \/ NoBlanks \/ TooFewPairs))
           => Emitted = <<>>

\* a multiple_choice block with question, answer and 3 options: no record
C4_Witness ==
    /\ p_pc = "response" /\ p_request.question_type = MULTIPLE_CHOICE
    /\ ~QuestionMissing /\ ~AnswerMissing
    /\ SumN(OfKind(p_chunks, {"options"})) = 3
    /\ p_out = <<>>

\* a match_the_following block, passed to _parse_single_question, with a
\* question and exactly one PAIRS line
OnePairsLine ==
    /\ p_pc = "single"
    /\ p_request.question_type = MATCH_THE_FOLLOWING
    /\ ~QuestionMissing
    /\ Len(OfKind(p_chunks, {"pairs"})) = 1

ThePairsLine == OfKind(p_chunks, {"pairs"})[1]

\* C5 as claimed: a match_the_following block with a question whose PAIRS line
\* holds exactly 2 valid left=right items is rejected, one whose PAIRS line
\* holds exactly 3 is accepted; items without "=" do not count.
C5_ThreePairsAccepted ==
    OnePairsLine =>
        /\ ThePairsLine.n = 2 => p_single = None
        /\ ThePairsLine.n = 3 => p_single # None

\* C5 amended: exactly 2 valid items: rejected; exactly 3 valid items whose
\* left terms are pairwise distinct: accepted, with these 3 pairs.
C5_ThreeDistinctPairsAccepted ==
    OnePairsLine =>
        /\ ThePairsLine.n = 2 => p_single = None
        /\ (ThePairsLine.n = 3 /\ Cardinality(Initials(<<ThePairsLine>>)) = 3) =>
               /\ p_single # None
               /\ Len(p_single[1].match_pairs[1]) = 3

\* both cases of the claim: 2 valid items and one without "=" rejected
\* (witness of the first), 3 distinct accepted
C5_Witness ==
    /\ OnePairsLine
    /\ ThePairsLine = Pairs3
    /\ p_single # None
    /\ p_single[1].match_pairs =
           Some(<< <<"H", "Hydrogen">>, <<"O", "Oxygen">>, <<"C", "Carbon">> >>)

\* C6: a record the parser accepts carries the payload of the request's type
\* and no other: in the dict, options / blanks / match_pairs are set exactly
\* for multiple_choice / fill_in_the_blanks / match_the_following (a
\* true_false record has none of the three, its payload is the answer); in the
\* QuestionResponse built from it exactly the data of the request's type is
\* set.  Lines of another type's layout populate nothing.
C6_OnePayload ==
    LET qt == p_request.question_type
    IN  /\ \A i \in 1..Len(Emitted) :
               /\ Emitted[i].options # None <=> qt = MULTIPLE_CHOICE
               /\ Emitted[i].blanks # None <=> qt = FILL_IN_THE_BLANKS
               /\ Emitted[i].match_pairs # None <=> qt = MATCH_THE_FOLLOWING
               /\ Emitted[i].correct_answer # ""
        /\ \A i \in 1..Len(p_resp) :
               /\ p_resp[i].multiple_choice_data # None <=> qt = MULTIPLE_CHOICE
               /\ p_resp[i].true_false_data # None <=> qt = TRUE_FALSE
               /\ p_resp[i].fill_in_blanks_data # None <=> qt = FILL_IN_THE_BLANKS
               /\ p_resp[i].match_following_data # None <=> qt = MATCH_THE_FOLLOWING

\* a true_false block with option lines and a BLANKS line in it was accepted
\* and its response built
C6_Witness ==
    /\ p_request.question_type = TRUE_FALSE
    /\ OfKind(p_chunks, {"options"}) # <<>> \/ OfKind(p_chunks, {"blanks"}) # <<>>
    /\ Len(p_resp) = 1
    /\ p_resp[1].true_false_data = Some([correct_answer |-> "True"])

(***************************************************************************)
(* Labels: one line per field, the label in lower or mixed case and the    *)
(* value holding a further colon, and the alternate spellings the parser   *)
(* lists ("Sub-topic:", "ELO Rating:", "Correct Answer:").                 *)
(***************************************************************************)
CommonLabelLines ==
    {Chunk("topic: Work: Power", "topic", "Work: Power", 0),
     Chunk("SubTopic:  Laws: Newton ", "subtopic", "Laws: Newton", 0),
     Chunk("Question: What is X: Y?", "question", "What is X: Y?", 0),
     Chunk("explanation: Because: so.", "explanation", "Because: so.", 0),
     Chunk("rAtInG: 1500", "rating", "", 1500),
     Chunk("Sub-topic: Units", "alt_subtopic", "Units", 0),
     Chunk("ELO Rating: 1100", "alt_rating", "", 1100)}

LabelsMenu ==
    CommonLabelLines \cup
    CASE p_request.question_type = MULTIPLE_CHOICE ->
             {Chunk("answer: B: two", "answer", "B: two", 0),
              Chunk("Correct Answer: D", "alt_answer", "D", 0)}
      [] p_request.question_type = TRUE_FALSE ->
             {Chunk("Answer: False: never", "answer", "False: never", 0)}
      [] p_request.question_type = FILL_IN_THE_BLANKS ->
             {Chunk("blanks: 3e8, c: light", "blanks", "3e8, c: light", 2)}
      [] p_request.question_type = MATCH_THE_FOLLOWING ->
             {Chunk("pairs: H=Hydrogen, O=Oxygen: gas", "pairs", "H=Hydrogen, O=Oxygen: gas", 2)}

NextLabels == (\E c \in LabelsMenu : Emit(c)) \/ ParseSingle

SpecLabels == PInit(AllTypes) /\ [][NextLabels]_vars

Has(kind) == OfKind(p_chunks, {kind}) # <<>>

LastOf(kind) == Last(OfKind(p_chunks, {kind}))

\* C7 as claimed: the alternate spellings are recognised like the primary
\* ones: a block ending in a "Sub-topic:" line has that sub_topic, one ending
\* in an "ELO Rating:" line has that raw rating, and a multiple_choice block
\* ending in a "Correct Answer:" line has that correct answer.
C7_AlternateLabels ==
    (p_pc = "single" /\ p_chunks # <<>>) =>
        LET c == Last(p_chunks)
        IN  /\ c.kind = "alt_subtopic" => p_fields.sub_topic = Some(c.val)
            /\ c.kind = "alt_rating" => p_fields.elo_rating = c.n
            /\ (c.kind = "alt_answer" /\ p_request.question_type = MULTIPLE_CHOICE)
                   => p_fields.correct_answer = c.val

\* C8: each primary label is recognised whatever the case of its letters, and
\* the field is the trimmed text after the first colon of the last line that
\* carries the label (for BLANKS and PAIRS the raw value is the correct answer
\* and the line's items are collected).
C8_LabelsAnyCase ==
    p_pc = "single" =>
        /\ Has("topic") => p_fields.topic = LastOf("topic").val
        /\ Has("subtopic") => p_fields.sub_topic = Some(LastOf("subtopic").val)
        /\ Has("question") => p_fields.question_text = LastOf("question").val
        /\ Has("explanation") => p_fields.explanation = LastOf("explanation").val
        /\ Has("rating") => p_fields.elo_rating = LastOf("rating").n
        /\ Has("answer") => p_fields.correct_answer = LastOf("answer").val
        /\ Has("blanks") =>
               /\ p_fields.correct_answer = LastOf("blanks").val
               /\ p_fields.blanks = <<"3e8", "c: light">>
        /\ Has("pairs") =>
               /\ p_fields.correct_answer = LastOf("pairs").val
               /\ p_fields.match_pairs = << <<"H", "Hydrogen">>, <<"O", "Oxygen: gas">> >>

\* a lower-case topic label with a colon in its value, and a mixed-case
\* rating label, were recognised
C8_Witness ==
    /\ p_pc = "single"
    /\ Has("topic") /\ p_fields.topic = "Work: Power"
    /\ Has("rating") /\ p_fields.elo_rating = 1500

(***************************************************************************)
(* Blocks: a completion of whole blocks, each followed by the separator.   *)
(* val is the question text of the record the block is to yield, "" when   *)
(* the block is to yield none.                                             *)
(***************************************************************************)
Block(text, val) == Chunk(text \o "\n\n---\n", "block", val, 0)

BlocksMenu ==
    CASE p_request.question_type = MULTIPLE_CHOICE ->
             {Block("TOPIC: Units\nQUESTION: Unit of current?\nA) Volt\nB) Watt\nC) Ampere\nD) Ohm\nANSWER: C\nRATING: 1100",
                    "Unit of current?"),
              Block("QUESTION: Unit of power?\nA) Volt\nB) Watt\nC) Ampere\nD) Ohm\nANSWER: B",
                    "Unit of power?"),
              Block("QUESTION: Unit of charge?\nA) Volt\nB) Coulomb\nC) Ampere\nANSWER: B", ""),
              Block("QUESTION: Unit of force?\nA) Volt\nB) Watt\nC) Newton\nD) Ohm", ""),
              Block("Here are your questions, as requested:", "")}
      [] p_request.question_type = TRUE_FALSE ->
             {Block("TOPIC: Energy\nQUESTION: Energy can be created.\nANSWER: False\nRATING: 1250",
                    "Energy can be created."),
              Block("QUESTION: Light is a wave.\nANSWER: True", "Light is a wave."),
              Block("QUESTION: Sound travels in vacuum.\nEXPLANATION: It does not.", ""),
              Block("ANSWER: True\nEXPLANATION: There is no question here.", ""),
              Block("Here are your questions, as requested:", "")}

BlockTypes == {Request("physics", t, None) : t \in {MULTIPLE_CHOICE, TRUE_FALSE}}

NextBlocks == (\E c \in BlocksMenu : Emit(c)) \/ ParseResponse

SpecBlocks == PInit(BlockTypes) /\ [][NextBlocks]_vars

RECURSIVE ExpectedQuestions(_)
\* the question texts of the blocks that are to yield a record, in order
ExpectedQuestions(chunks) ==
    IF chunks = <<>> THEN <<>>
    ELSE (IF Head(chunks).val = "" THEN <<>> ELSE <<Head(chunks).val>>)
             \o ExpectedQuestions(Tail(chunks))

\* C10: the parse of any completion returns (it raises nothing): a block that
\* fails validation contributes no record, the blocks after it are parsed all
\* the same, and the records come in the order of their blocks.
C10_BadBlocksDropped ==
    p_pc = "response" =>
        /\ Len(p_out) = Len(ExpectedQuestions(p_chunks))
        /\ \A i \in 1..Len(p_out) :
               p_out[i].question_text = ExpectedQuestions(p_chunks)[i]

\* a multiple_choice block with 3 options, then two good blocks: two records
C10_Witness ==
    /\ p_pc = "response" /\ p_request.question_type = MULTIPLE_CHOICE
    /\ Len(p_chunks) = 3
    /\ p_chunks[1].val = "" /\ contains(p_chunks[1].text, "A)")
        /\ ~contains(p_chunks[1].text, "D)")
    /\ Len(p_out) = 2
    /\ p_out[1].question_text = "Unit of power?"
    /\ p_out[2].question_text = "Unit of current?"

(***************************************************************************)
(* routes.py: generate_questions, the handler of POST /questions/generate  *)
(***************************************************************************)
\* the values of num_questions requests carry
NumQuestions == {1, 2}

\* what the LLM returns to a true_false request: None when the call fails,
\* else the completion text
CompA == "TOPIC: Energy\nQUESTION: Energy can be created.\nANSWER: False\nRATING: 1250\n---\n"

CompBA ==
    "QUESTION: Light is a wave.\nANSWER: True\n\n---\n\nquestion:   ENERGY can be CREATED.  \nanswer: False\n"

CompAAB ==
    "QUESTION: Energy can be created.\nANSWER: False\n---\nQuestion: energy can be created.\nAnswer: False\n---\nQUESTION: Light is a wave.\nANSWER: True\n---"

CompBad == "QUESTION: Sound travels in vacuum.\nEXPLANATION: It does not.\n---\n"

LLMOutcomes == {None, Some(""), Some(CompA), Some(CompBA), Some(CompAAB), Some(CompBad)}

\* HTTPException(status_code=500, detail=...)
Error500(detail) == [status |-> 500, detail |-> detail]

\* the response built without the test for an empty list
response_without_empty_check(req, front, saved, dups) ==
    LET final_questions == slice_to(front, req.num_questions)
    IN  [status        |-> 200,
         subject       |-> req.subject,
         difficulty    |-> req.difficulty,
         question_type |-> req.question_type,
         questions     |-> final_questions,
         source        |-> "ai_generated",
         stats         |-> [total_returned     |-> Len(final_questions),
                            from_database      |-> 0,
                            newly_generated    |-> Len(saved),
                            duplicates_skipped |-> dups]]

\* the response of the handler once its loop is over
response(req, front, saved, dups) ==
    LET final_questions == slice_to(front, req.num_questions)
    IN  IF final_questions = <<>> THEN Error500("No questions could be generated")
        ELSE [status        |-> 200,
              subject       |-> req.subject,
              difficulty    |-> req.difficulty,
              question_type |-> req.question_type,
              questions     |-> final_questions,
              source        |-> "ai_generated",
              stats         |-> [total_returned     |-> Len(final_questions),
                                 from_database      |-> 0,
                                 newly_generated    |-> Len(saved),
                                 duplicates_skipped |-> dups]]

\* the row save_question_to_db inserts; by and seen are bookkeeping: the
\* request that inserted it and the size of the table at its duplicate check
new_row(rows, question_data, req, r, at) ==
    [id            |-> Len(rows) + 1,
     subject       |-> req.subject,
     difficulty    |-> req.difficulty,
     question_type |-> req.question_type,
     topic         |-> question_data.topic,
     sub_topic     |-> question_data.sub_topic,
     question_text |-> question_data.question_text,
     explanation   |-> question_data.explanation,
     elo_rating    |-> question_data.elo_rating,
     elo_min       |-> question_data.elo_range[1],
     elo_max       |-> question_data.elo_range[2],
     state         |-> req.state,
     by            |-> r,
     seen          |-> at]

\* the record formatted with the id the store gives to its next row
frontend_question_store_id(r) ==
    convert_to_frontend_format(
        create_question_response_from_dict(question_dicts[r][idx[r]], request[r],
                                           Len(store) + 1))

\* lines 167-169: the record formatted for the frontend, its id is i + 1
frontend_question(r) ==
    convert_to_frontend_format(
        create_question_response_from_dict(question_dicts[r][idx[r]], request[r], idx[r]))

\* the request arrives and the handler calls the LLM whether or not a client
\* is configured
Start_without_client_check(r) ==
    /\ pc[r] = "idle"
    /\ \A q \in Reqs : q < r => pc[q] # "idle"
    /\ \E n \in NumQuestions, w \in (IF r = 1 THEN {1} ELSE Workers) :
           /\ running[w] = 0
           /\ request' = [request EXCEPT ![r].num_questions = n]
           /\ worker' = [worker EXCEPT ![r] = w]
    /\ before' = [before EXCEPT ![r] = {q \in Reqs : pc[q] = "done"}]
    /\ pc' = [pc EXCEPT ![r] = "llm"]
    /\ llm_calls' = [llm_calls EXCEPT ![r] = @ + 1]
    /\ UNCHANGED <<openrouter, store, running, ai_response, question_dicts, idx, seen,
                   frontend_questions, saved_questions, duplicates_found, outcome,
                   result, failures, pvars>>

\* the request arrives: the handler runs to its await, or fails at once when
\* no LLM client is configured
Start(r) ==
    /\ pc[r] = "idle"
    /\ \A q \in Reqs : q < r => pc[q] # "idle"
    /\ \E n \in NumQuestions, w \in (IF r = 1 THEN {1} ELSE Workers) :
           /\ running[w] = 0
           /\ request' = [request EXCEPT ![r].num_questions = n]
           /\ worker' = [worker EXCEPT ![r] = w]
    /\ before' = [before EXCEPT ![r] = {q \in Reqs : pc[q] = "done"}]
    /\ IF openrouter
       THEN /\ pc' = [pc EXCEPT ![r] = "llm"]
            /\ llm_calls' = [llm_calls EXCEPT ![r] = @ + 1]
            /\ UNCHANGED result
       ELSE /\ pc' = [pc EXCEPT ![r] = "done"]
            /\ result' = [result EXCEPT ![r] = Some(Error500(
                   "Failed to generate questions: AI service not configured - OpenAI API key missing"))]
            /\ UNCHANGED llm_calls
    /\ UNCHANGED <<openrouter, store, running, ai_response, question_dicts, idx, seen,
                   frontend_questions, saved_questions, duplicates_found, outcome,
                   failures, pvars>>

\* the LLM call returns and the completion is parsed
LLMReturn(r) ==
    /\ pc[r] = "llm"
    /\ running[worker[r]] = 0
    /\ \E returned \in LLMOutcomes :
           LET questions == IF returned = None THEN <<>>
                            ELSE parse_ai_response(returned[1], request[r])
           IN  /\ ai_response' = [ai_response EXCEPT ![r] = Some(returned)]
               /\ IF returned = None \/ returned = Some("")
                  THEN /\ pc' = [pc EXCEPT ![r] = "done"]
                       /\ result' = [result EXCEPT ![r] = Some(Error500(
                              "Failed to generate questions: AI service failed to generate response"))]
                       /\ UNCHANGED <<question_dicts, idx, running>>
                  ELSE IF questions = <<>>
                  THEN /\ pc' = [pc EXCEPT ![r] = "done"]
                       /\ result' = [result EXCEPT ![r] = Some(Error500(
                              "Failed to generate questions: Failed to parse AI response into valid questions"))]
                       /\ UNCHANGED <<question_dicts, idx, running>>
                  ELSE /\ pc' = [pc EXCEPT ![r] = "check"]
                       /\ question_dicts' = [question_dicts EXCEPT ![r] = questions]
                       /\ idx' = [idx EXCEPT ![r] = 1]
                       /\ running' = [running EXCEPT ![worker[r]] = r]
                       /\ UNCHANGED result
    /\ UNCHANGED <<openrouter, store, request, worker, llm_calls, seen,
                   frontend_questions, saved_questions, duplicates_found, outcome,
                   before, failures, pvars>>

\* the end of one iteration where a record's failure ends the request
NextRecord_abort_on_error(r, front, saved, dups, what) ==
    /\ frontend_questions' = [frontend_questions EXCEPT ![r] = front]
    /\ saved_questions' = [saved_questions EXCEPT ![r] = saved]
    /\ duplicates_found' = [duplicates_found EXCEPT ![r] = dups]
    /\ outcome' = [outcome EXCEPT ![r] = Append(@, what)]
    /\ IF idx[r] < Len(question_dicts[r]) /\ what # "error"
       THEN /\ idx' = [idx EXCEPT ![r] = @ + 1]
            /\ pc' = [pc EXCEPT ![r] = "check"]
            /\ UNCHANGED <<result, running>>
       ELSE /\ pc' = [pc EXCEPT ![r] = "done"]
            /\ result' = [result EXCEPT ![r] =
                   IF what = "error"
                   THEN Some(Error500("Failed to generate questions: record failed"))
                   ELSE Some(response(request[r], front, saved, dups))]
            /\ running' = [running EXCEPT ![worker[r]] = 0]
            /\ UNCHANGED idx

\* the end of one iteration where a record that failed is tried again
NextRecord_retry_on_error(r, front, saved, dups, what) ==
    /\ frontend_questions' = [frontend_questions EXCEPT ![r] = front]
    /\ saved_questions' = [saved_questions EXCEPT ![r] = saved]
    /\ duplicates_found' = [duplicates_found EXCEPT ![r] = dups]
    /\ outcome' = [outcome EXCEPT ![r] = Append(@, what)]
    /\ IF what = "error"
       THEN /\ pc' = [pc EXCEPT ![r] = "check"]
            /\ UNCHANGED <<idx, result, running>>
       ELSE IF idx[r] < Len(question_dicts[r])
       THEN /\ idx' = [idx EXCEPT ![r] = @ + 1]
            /\ pc' = [pc EXCEPT ![r] = "check"]
            /\ UNCHANGED <<result, running>>
       ELSE /\ pc' = [pc EXCEPT ![r] = "done"]
            /\ result' = [result EXCEPT ![r] = Some(response(request[r], front, saved, dups))]
            /\ running' = [running EXCEPT ![worker[r]] = 0]
            /\ UNCHANGED idx

\* the end of one iteration where the loop stops once the output list holds
\* num_questions entries
NextRecord_stop_when_full(r, front, saved, dups, what) ==
    /\ frontend_questions' = [frontend_questions EXCEPT ![r] = front]
    /\ saved_questions' = [saved_questions EXCEPT ![r] = saved]
    /\ duplicates_found' = [duplicates_found EXCEPT ![r] = dups]
    /\ outcome' = [outcome EXCEPT ![r] = Append(@, what)]
    /\ IF idx[r] < Len(question_dicts[r]) /\ Len(front) < request[r].num_questions
       THEN /\ idx' = [idx EXCEPT ![r] = @ + 1]
            /\ pc' = [pc EXCEPT ![r] = "check"]
            /\ UNCHANGED <<result, running>>
       ELSE /\ pc' = [pc EXCEPT ![r] = "done"]
            /\ result' = [result EXCEPT ![r] = Some(response(request[r], front, saved, dups))]
            /\ running' = [running EXCEPT ![worker[r]] = 0]
            /\ UNCHANGED idx

\* the end of one iteration of the loop: the next record, or, after the last
\* one, lines 175-202
NextRecord(r, front, saved, dups, what) ==
    /\ frontend_questions' = [frontend_questions EXCEPT ![r] = front]
    /\ saved_questions' = [saved_questions EXCEPT ![r] = saved]
    /\ duplicates_found' = [duplicates_found EXCEPT ![r] = dups]
    /\ outcome' = [outcome EXCEPT ![r] = Append(@, what)]
    /\ IF idx[r] < Len(question_dicts[r])
       THEN /\ idx' = [idx EXCEPT ![r] = @ + 1]
            /\ pc' = [pc EXCEPT ![r] = "check"]
            /\ UNCHANGED <<result, running>>
       ELSE /\ pc' = [pc EXCEPT ![r] = "done"]
            /\ result' = [result EXCEPT ![r] = Some(response(request[r], front, saved, dups))]
            /\ running' = [running EXCEPT ![worker[r]] = 0]
            /\ UNCHANGED idx

\* the duplicate check of the record in process: the query of
\* check_duplicate_question, which may raise
CheckDuplicate(r) ==
    /\ pc[r] = "check"
    /\ \E raises \in {FALSE} \cup {f \in {TRUE} : failures < MaxFailures} :
           IF raises
           THEN /\ failures' = failures + 1
                /\ NextRecord(r, frontend_questions[r], saved_questions[r],
                              duplicates_found[r], "error")
                /\ UNCHANGED seen
           ELSE IF check_duplicate_question(store, question_dicts[r][idx[r]].question_text,
                                            request[r].subject, request[r].question_type)
           THEN /\ NextRecord(r, Append(frontend_questions[r], frontend_question(r)),
                              saved_questions[r], duplicates_found[r] + 1, "duplicate")
                /\ UNCHANGED <<seen, failures>>
           ELSE /\ pc' = [pc EXCEPT ![r] = "save"]
                /\ seen' = [seen EXCEPT ![r] = Len(store)]
                /\ UNCHANGED <<idx, frontend_questions, saved_questions,
                               duplicates_found, outcome, result, running, failures>>
    /\ UNCHANGED <<openrouter, store, request, worker, llm_calls, ai_response,
                   question_dicts,
                   before, pvars>>

\* save_question_to_db and get_question_with_details for a record found new:
\* the insert is committed, or it raises and is rolled back
SaveQuestion(r) ==
    /\ pc[r] = "save"
    /\ \E raises \in {FALSE} \cup {f \in {TRUE} : failures < MaxFailures} :
           IF raises
           THEN /\ failures' = failures + 1
                /\ NextRecord(r, frontend_questions[r], saved_questions[r],
                              duplicates_found[r], "error")
                /\ UNCHANGED store
           ELSE /\ store' = Append(store, new_row(store, question_dicts[r][idx[r]],
                                                  request[r], r, seen[r]))
                /\ NextRecord(r, Append(frontend_questions[r], frontend_question(r)),
                              Append(saved_questions[r], Len(store) + 1),
                              duplicates_found[r], "saved")
                /\ UNCHANGED failures
    /\ UNCHANGED <<openrouter, request, worker, llm_calls, ai_response, question_dicts,
                   seen,
                   before, pvars>>

\* the parser's test variables, idle
PIdle ==
    /\ p_request = Request("physics", TRUE_FALSE, None)
    /\ p_chunks = <<>>
    /\ p_pc = "input"
    /\ p_fields = InitFields
    /\ p_single = None
    /\ p_out = <<>>
    /\ p_resp = <<>>
    /\ p_front = <<>>

Init == openrouter \in BOOLEAN /\ HInit /\ PIdle

Next == \E r \in Reqs : Start(r) \/ LLMReturn(r) \/ CheckDuplicate(r) \/ SaveQuestion(r)

Spec == Init /\ [][Next]_vars

\* two question texts equal up to letter case and surrounding whitespace
SameText(a, b) == lower(strip(a)) = lower(strip(b))

\* row holds the question of record rec of request r
HoldsRecord(row, r, rec) ==
    /\ SameText(row.question_text, rec.question_text)
    /\ row.subject = request[r].subject
    /\ row.question_type = request[r].question_type

\* record k of request r repeats a question stored by a request that was
\* answered before r arrived, and its duplicate check did not raise
SecondOccurrence(r, k) ==
    /\ k \in 1..Len(outcome[r])
    /\ outcome[r][k] # "error"
    /\ \E a \in 1..Len(store) :
           store[a].by \in before[r] /\ HoldsRecord(store[a], r, question_dicts[r][k])

\* the place of record k in the output list of request r: records whose
\* processing raised are left out
PlaceInOutput(r, k) == Cardinality({j \in 1..k : outcome[r][j] # "error"})

CountOf(r, what) == Cardinality({j \in 1..Len(outcome[r]) : outcome[r][j] = what})

Answered(r) == pc[r] = "done" /\ result[r] # None

\* the returned questions of request r hold record k
Returned(r, k) ==
    /\ result[r][1].status = 200
    /\ \E j \in 1..Len(result[r][1].questions) :
           /\ result[r][1].questions[j].id = k
           /\ result[r][1].questions[j].question = question_dicts[r][k].question_text

\* the second occurrence is counted as a duplicate and adds no row
CountedNotStored(r, k) ==
    /\ outcome[r][k] = "duplicate"
    /\ \A a \in 1..Len(store) :
           HoldsRecord(store[a], r, question_dicts[r][k]) => store[a].by # r
    /\ Answered(r) =>
           /\ result[r][1].status = 200
           /\ result[r][1].stats.duplicates_skipped = CountOf(r, "duplicate")
           /\ result[r][1].stats.newly_generated = CountOf(r, "saved")

SameRow(a, b) ==
    /\ SameText(store[a].question_text, store[b].question_text)
    /\ store[a].subject = store[b].subject
    /\ store[a].question_type = store[b].question_type

Min(a, b) == IF a < b THEN a ELSE b

RECURSIVE Processed(_, _)
\* the positions, among the first k parsed records of request r, of those
\* processed into the output list, in parse order
Processed(r, k) ==
    IF k = 0 THEN <<>>
    ELSE Processed(r, k - 1) \o (IF outcome[r][k] # "error" THEN <<k>> ELSE <<>>)

\* the loop of request r is over
LoopOver(r) == Answered(r) /\ Len(outcome[r]) > 0

\* C11: for a request with positive num_questions = n whose loop processed
\* k >= 1 records into the output list, the response holds exactly the first
\* min(k, n) of them in parse order and stats.total_returned is that number.
C11_FirstMinReturned ==
    \A r \in Reqs :
        LET ids == Processed(r, Len(outcome[r]))
            n == request[r].num_questions
        IN  (LoopOver(r) /\ n > 0 /\ Len(ids) > 0) =>
                /\ result[r][1].status = 200
                /\ Len(result[r][1].questions) = Min(Len(ids), n)
                /\ \A j \in 1..Len(result[r][1].questions) :
                       /\ result[r][1].questions[j].id = ids[j]
                       /\ result[r][1].questions[j].question =
                              question_dicts[r][ids[j]].question_text
                /\ result[r][1].stats.total_returned = Min(Len(ids), n)

\* three records were processed for a request of two questions: the first
\* two are returned
C11_Witness ==
    \E r \in Reqs :
        /\ LoopOver(r) /\ request[r].num_questions = 2
        /\ Processed(r, Len(outcome[r])) = <<1, 2, 3>>
        /\ Len(result[r][1].questions) = 2
        /\ result[r][1].stats.total_returned = 2

\* request r has arrived and the LLM gave it no question: no client is
\* configured, or the call failed or returned no text, or the completion
\* parses to zero records
NoQuestions(r) ==
    /\ pc[r] # "idle"
    /\ \/ ~openrouter
       \/ /\ ai_response[r] # None
          /\ \/ ai_response[r][1] = None
             \/ ai_response[r][1] = Some("")
             \/ parse_ai_response(ai_response[r][1][1], request[r]) = <<>>

\* C12: a request with no client, a failed or empty completion, or a
\* completion that parses to zero records, ends with one HTTP 500 error, with
\* no duplicate check made and no row of its own in the store.
C12_NoQuestionsFails ==
    \A r \in Reqs :
        NoQuestions(r) =>
            /\ pc[r] = "done"
            /\ result[r] # None /\ result[r][1].status = 500
            /\ outcome[r] = <<>> /\ question_dicts[r] = <<>>
            /\ \A a \in 1..Len(store) : store[a].by # r

\* a store that holds a row when a later request fails for a completion
\* without a parsable block
C12_Witness ==
    \E r \in Reqs :
        /\ NoQuestions(r) /\ openrouter
        /\ ai_response[r] = Some(Some(CompBad))
        /\ Len(store) > 0
        /\ result[r][1].status = 500

\* the ids of the entries of a list of formatted questions
Ids(questions) == {questions[j].id : j \in 1..Len(questions)}

\* C13: a record whose duplicate check or persistence raised is left out of
\* the output; the records after it are still processed, one outcome each in
\* parse order; and the request fails only if no record at all reached the
\* output list.
C13_FailedRecordSkipped ==
    \A r \in Reqs :
        /\ \A k \in 1..Len(outcome[r]) :
               outcome[r][k] = "error" <=> k \notin Ids(frontend_questions[r])
        /\ pc[r] \in {"check", "save"} => idx[r] = Len(outcome[r]) + 1
        /\ LoopOver(r) =>
               /\ Len(outcome[r]) = Len(question_dicts[r])
               /\ result[r][1].status = 500 <=> Processed(r, Len(outcome[r])) = <<>>
               /\ result[r][1].status = 200 =>
                      \A k \in 1..Len(outcome[r]) :
                          outcome[r][k] = "error" => k \notin Ids(result[r][1].questions)

\* the first of three records failed and the two after it were returned
C13_Witness ==
    \E r \in Reqs :
        /\ LoopOver(r)
        /\ outcome[r][1] = "error" /\ Len(outcome[r]) = 3
        /\ result[r][1].status = 200
        /\ Ids(result[r][1].questions) = {2, 3}

\* C14: a request whose output list is empty after truncation to
\* num_questions fails with HTTP 500; every successful response has a
\* non-empty questions list and stats.total_returned >= 1.
C14_EmptyResultFails ==
    \A r \in Reqs :
        /\ (LoopOver(r) /\ slice_to(frontend_questions[r], request[r].num_questions) = <<>>)
               => result[r][1] = Error500("No questions could be generated")
        /\ (Answered(r) /\ result[r][1].status = 200) =>
               /\ Len(result[r][1].questions) >= 1
               /\ result[r][1].stats.total_returned >= 1

\* the only record of a completion failed: the loop ended with an empty
\* output list and the request with HTTP 500
C14_Witness ==
    \E r \in Reqs :
        /\ LoopOver(r) /\ outcome[r] = <<"error">>
        /\ frontend_questions[r] = <<>>
        /\ result[r][1].status = 500

(***************************************************************************)
(* Options: a multiple_choice block whose option lines come in groups, in  *)
(* any order; a group's val is the letters of its lines, in order.         *)
(***************************************************************************)
McBody == Chunk("QUESTION: What is the unit of electric current?\nANSWER: C", "body", "", 0)

\* the text of the option the completion gives for a letter
NameOf(letter) ==
    CASE letter = "A" -> "Volt" [] letter = "B" -> "Watt"
      [] letter = "C" -> "Ampere" [] letter = "D" -> "Ohm"

OptionGroups ==
    {Chunk("A) Volt\nB) Watt", "options", "AB", 2),
     Chunk("B) Watt\nA) Volt", "options", "BA", 2),
     Chunk("C) Ampere\nD) Ohm", "options", "CD", 2),
     Chunk("A)Volt\nB)Watt", "options", "AB", 2),
     Chunk("A) Volt\nB) Watt\nC) Ampere\nD) Ohm", "options", "ABCD", 4)}

OptionsMenu == {McBody} \cup OptionGroups

NextOptions == (\E c \in OptionsMenu : Emit(c)) \/ ParseResponse \/ Respond \/ Convert

SpecOptions == PInit({Request("physics", MULTIPLE_CHOICE, None)}) /\ [][NextOptions]_vars

RECURSIVE OptionLetters(_)
\* the letters of the completion's option lines, in order
OptionLetters(chunks) ==
    IF chunks = <<>> THEN ""
    ELSE (IF Head(chunks).kind = "options" THEN Head(chunks).val ELSE "")
             \o OptionLetters(Tail(chunks))

\* the completion has one option line for each of the letters A to D
OnePerLetter ==
    /\ Len(OptionLetters(p_chunks)) = 4
    /\ \A letter \in {"A", "B", "C", "D"} : contains(OptionLetters(p_chunks), letter)

\* C15 as claimed: every returned multiple_choice question has four options
\* labelled 'A) ', 'B) ', 'C) ', 'D) ' in that order, and when the completion
\* has one option line per letter the text after each label is the text of
\* the line that carried that letter.
C15_OptionsByLetter ==
    \A i \in 1..Len(p_front) :
        /\ p_front[i].options # None
        /\ Len(p_front[i].options[1]) = 4
        /\ \A j \in 1..4 :
               startswith(p_front[i].options[1][j], <<"A) ", "B) ", "C) ", "D) ">>[j])
        /\ OnePerLetter =>
               p_front[i].options[1] =
                   <<"A) " \o NameOf("A"), "B) " \o NameOf("B"),
                     "C) " \o NameOf("C"), "D) " \o NameOf("D")>>

(***************************************************************************)
(* True/false answers: a true_false question and ANSWER lines; an answer   *)
(* line's val is the value it gives.                                       *)
(***************************************************************************)
TfQuestion == Chunk("QUESTION: Energy can be created from nothing.", "question", "", 0)

TfAnswers ==
    {Chunk("ANSWER: True", "answer", "True", 0),
     Chunk("ANSWER: False", "answer", "False", 0),
     Chunk("answer: true", "answer", "true", 0),
     Chunk("ANSWER: Yes", "answer", "Yes", 0),
     Chunk("ANSWER:", "answer", "", 0)}

AnswersMenu == {TfQuestion} \cup TfAnswers

NextAnswers == (\E c \in AnswersMenu : Emit(c)) \/ ParseSingle \/ ParseResponse

SpecAnswers == PInit({Request("physics", TRUE_FALSE, None)}) /\ [][NextAnswers]_vars

\* C16 as claimed: every true_false record the parser emits has a correct
\* answer that is "True" or "False".
C16_TrueOrFalse ==
    \A i \in 1..Len(Emitted) : Emitted[i].correct_answer \in {"True", "False"}

(***************************************************************************)
(* Topics: a true_false block with TOPIC and SUBTOPIC lines, for requests  *)
(* of two subjects, with and without a sub_topic; a line's val is the      *)
(* value it gives.                                                         *)
(***************************************************************************)
TopicBody == Chunk("QUESTION: A stack is a last-in first-out structure.\nANSWER: True", "body", "", 0)

TopicLines ==
    {Chunk("TOPIC: Binary Trees", "topic", "Binary Trees", 0),
     Chunk("topic:   data structures  ", "topic", "data structures", 0),
     Chunk("TOPIC:", "topic", "", 0),
     Chunk("SUBTOPIC: Caches", "subtopic", "Caches", 0),
     Chunk("SUBTOPIC:  ", "subtopic", "", 0)}

TopicsMenu == {TopicBody} \cup TopicLines

TopicRequests ==
    {Request(subject, TRUE_FALSE, sub_topic) :
        subject \in {"physics", "computer_science"}, sub_topic \in {None, Some("Hardware")}}

NextTopics == (\E c \in TopicsMenu : Emit(c)) \/ ParseSingle

SpecTopics == PInit(TopicRequests) /\ [][NextTopics]_vars

\* the value of the block's last line of a kind, "" when it has none
BlockValue(kind) == IF Has(kind) THEN LastOf(kind).val ELSE ""

\* the subject with underscores replaced by spaces, title-cased
TitleOfSubject(subject) ==
    CASE subject = "physics" -> "Physics"
      [] subject = "computer_science" -> "Computer Science"

\* C17: a record of a block with an empty or absent topic has the request's
\* subject, underscores replaced by spaces and title-cased, as its topic; one
\* of a block with an empty or absent sub_topic has the request's sub_topic
\* when the request carries one; a non-empty parsed topic or sub_topic is kept.
C17_TopicDefaults ==
    \A i \in 1..Len(Emitted) :
        /\ Emitted[i].topic =
               IF BlockValue("topic") = "" THEN TitleOfSubject(p_request.subject)
               ELSE BlockValue("topic")
        /\ BlockValue("subtopic") # "" => Emitted[i].sub_topic = Some(BlockValue("subtopic"))
        /\ (BlockValue("subtopic") = "" /\ p_request.sub_topic # None)
               => Emitted[i].sub_topic = p_request.sub_topic

\* a block with an empty TOPIC line and no SUBTOPIC line, for a
\* computer_science request that carries a sub_topic
C17_Witness ==
    /\ Len(Emitted) = 1
    /\ Has("topic") /\ BlockValue("topic") = "" /\ ~Has("subtopic")
    /\ p_request.subject = "computer_science" /\ p_request.sub_topic = Some("Hardware")
    /\ Emitted[1].topic = "Computer Science"
    /\ Emitted[1].sub_topic = Some("Hardware")

(***************************************************************************)
(* Short blocks: true_false blocks that hold a question and an answer; a   *)
(* block's val is its question and its n the length of its trimmed text.   *)
(***************************************************************************)
SizedBlock(text, val, n) == Chunk(text \o "\n---\n", "block", val, n)

SizedBlocks ==
    {SizedBlock("QUESTION: Q\nANSWER: True", "Q", 24),
     SizedBlock("QUESTION: Is it?\nANSWER: True", "Is it?", 29),
     SizedBlock("   QUESTION: Is he?\nANSWER: True  \n", "Is he?", 29),
     SizedBlock("QUESTION: Is so?\nANSWER: False", "Is so?", 30),
     SizedBlock("QUESTION: Light is a wave.\nANSWER: True", "Light is a wave.", 39)}

NextSized == (\E c \in SizedBlocks : Emit(c)) \/ ParseResponse

SpecSized == PInit({Request("physics", TRUE_FALSE, None)}) /\ [][NextSized]_vars

RECURSIVE LongEnough(_)
\* the questions of the blocks of trimmed length 30 or more, in order
LongEnough(chunks) ==
    IF chunks = <<>> THEN <<>>
    ELSE (IF Head(chunks).n >= 30 THEN <<Head(chunks).val>> ELSE <<>>)
             \o LongEnough(Tail(chunks))

\* C18: a block of trimmed length below 30 yields no record even when it
\* holds every field its type requires, and the parse goes on; the blocks of
\* trimmed length 30 or more are parsed: here each yields its record.
C18_ShortBlocksSkipped ==
    p_pc = "response" =>
        /\ Len(p_out) = Len(LongEnough(p_chunks))
        /\ \A i \in 1..Len(p_out) : p_out[i].question_text = LongEnough(p_chunks)[i]

\* a complete block of 29 characters, then one of 30: one record, the second
C18_Witness ==
    /\ p_pc = "response" /\ Len(p_chunks) >= 2
    /\ p_chunks[1].n = 29 /\ p_chunks[2].n = 30
    /\ Len(p_out) >= 1 /\ p_out[1].question_text = p_chunks[2].val

\* one step of request r: the LLM is called at most once and not again once
\* the call has returned; the records exist only once the call has returned;
\* a record that got its outcome, a failure included, is left for the next
\* one or for the end of the request; and a row is inserted only for the
\* record in process, found new
StepInOrder(r) ==
    /\ llm_calls'[r] <= 1
    /\ ai_response[r] # None => llm_calls'[r] = llm_calls[r]
    /\ question_dicts'[r] # question_dicts[r] =>
           /\ llm_calls[r] = 1 /\ ai_response[r] = None /\ ai_response'[r] # None
           /\ question_dicts[r] = <<>> /\ idx'[r] = 1
    /\ outcome'[r] # outcome[r] =>
           /\ Len(outcome'[r]) = Len(outcome[r]) + 1
           /\ Len(outcome'[r]) = idx[r]
           /\ \/ idx'[r] = idx[r] + 1 /\ pc'[r] = "check"
              \/ idx[r] = Len(question_dicts[r]) /\ pc'[r] = "done"
    /\ outcome'[r] = outcome[r] => (idx'[r] = idx[r] \/ idx[r] = 0)
    /\ (pc[r] = "save" /\ outcome'[r] = Append(outcome[r], "error")) => store' = store

NonOverlapping ==
    \A r \in Reqs : pc[r] # "idle" => \A q \in Reqs : q < r => q \in before[r]

C21_CountersBeforeTruncation ==
    \A r \in Reqs :
        LoopOver(r) =>
            /\ Len(outcome[r]) = Len(question_dicts[r])
            /\ \A k \in 1..Len(outcome[r]) :
                   /\ outcome[r][k] # "error" =>
                          \E a \in 1..Len(store) :
                              HoldsRecord(store[a], r, question_dicts[r][k])
                   /\ outcome[r][k] = "saved" =>
                          \E a \in 1..Len(store) :
                              /\ store[a].by = r
                              /\ store[a].question_text = question_dicts[r][k].question_text
            /\ result[r][1].status = 200 =>
                   LET stats == result[r][1].stats
                   IN  /\ stats.newly_generated = CountOf(r, "saved")
                       /\ stats.duplicates_skipped = CountOf(r, "duplicate")
                       /\ stats.total_returned <=
                              stats.newly_generated + stats.duplicates_skipped
                       /\ (/\ Len(question_dicts[r]) <= request[r].num_questions
                           /\ CountOf(r, "error") = 0)
                              => stats.total_returned =
                                     stats.newly_generated + stats.duplicates_skipped

\* three records for a request of one question: all three are counted and
\* the two new ones stored, one is returned; and a request whose two records
\* fit its two questions, with the counters adding up to total_returned
C21_Witness ==
    \E q, r \in Reqs :
        /\ LoopOver(r) /\ request[r].num_questions = 1
        /\ outcome[r] = <<"saved", "duplicate", "saved">>
        /\ Cardinality({a \in 1..Len(store) : store[a].by = r}) = 2
        /\ result[r][1].stats.total_returned = 1
        /\ result[r][1].stats.newly_generated = 2
        /\ result[r][1].stats.duplicates_skipped = 1
        /\ LoopOver(q) /\ request[q].num_questions = 2 /\ Len(outcome[q]) = 2
        /\ CountOf(q, "error") = 0
        /\ result[q][1].stats.total_returned = 2

\* C22: the id of a returned question is the 1-based position of its record
\* in the parsed list, whatever id the store gave its row; the ids of a
\* response are strictly increasing; and a duplicate that is returned carries
\* its position as id like a saved record.
C22_IdIsPosition ==
    \A r \in Reqs :
        (Answered(r) /\ result[r][1].status = 200) =>
            LET questions == result[r][1].questions
            IN  /\ \A j \in 1..Len(questions) :
                       /\ questions[j].id \in 1..Len(question_dicts[r])
                       /\ questions[j].question =
                              question_dicts[r][questions[j].id].question_text
                       /\ outcome[r][questions[j].id] # "error"
                       /\ j > 1 => questions[j - 1].id < questions[j].id
                /\ \A k \in 1..Len(outcome[r]) :
                       (outcome[r][k] # "error"
                            /\ PlaceInOutput(r, k) <= request[r].num_questions)
                           => k \in Ids(questions)

\* the second request returned its new question with id 1, stored as row 2,
\* and the duplicate with id 2, stored before as row 1
C22_Witness ==
    /\ Answered(2) /\ result[2][1].status = 200
    /\ outcome[2] = <<"saved", "duplicate">>
    /\ Len(result[2][1].questions) = 2
    /\ result[2][1].questions[1].id = 1 /\ result[2][1].questions[2].id = 2
    /\ \E a \in 1..Len(store) :
           /\ store[a].by = 2 /\ store[a].id = 2
           /\ store[a].question_text = result[2][1].questions[1].question
    /\ HoldsRecord(store[1], 2, question_dicts[2][2]) /\ store[1].id = 1

====
